---- MODULE Spec2Model ----
(***************************************************************************)
(* Bucks2Bar (src/script.js): a form of 12 income and 12 expense input     *)
(* fields, validateAndCollectData(), renderChart() and the download click  *)
(* handler, with the Chart objects the page constructs.                    *)
(*                                                                         *)
(* A text is a sequence of one-character strings.  The texts of the model  *)
(* are drawn from the characters of Alphabet: the space, the signs, the    *)
(* dot, the decimal digits and the letters a b c x y z.  trim, Number()    *)
(* (behind isNaN) and parseFloat are modelled by their ECMAScript grammars *)
(* restricted to that alphabet (so no exponent part and no "Infinity",     *)
(* whose letters are outside it).  A number is NaN or sign and magnitude,  *)
(* the magnitude counted in units of 1/Scale.                              *)
(***************************************************************************)
EXTENDS Integers, Sequences, FiniteSets, TLC

\* ------------------------------------------------------------ bounds
MaxTextLen == 3
MaxEdits == 2
MaxCharts == 2

\* ------------------------------------------------------------ texts
Digits == {"0", "1", "2", "3", "4", "5", "6", "7", "8", "9"}
Whitespace == {" "}
Signs == {"+", "-"}
Letters == {"a", "b", "c", "x", "y", "z"}
Alphabet == Whitespace \cup Signs \cup {"."} \cup Digits \cup Letters

Drop(s, n) == SubSeq(s, n + 1, Len(s))

RECURSIVE Pow10(_)
Pow10(n) == IF n = 0 THEN 1 ELSE 10 * Pow10(n - 1)

\* Fraction digits the magnitudes keep: no text of the model has more.
Scale == Pow10(MaxTextLen)

DigitVal(c) ==
  CASE c = "0" -> 0 [] c = "1" -> 1 [] c = "2" -> 2 [] c = "3" -> 3
    [] c = "4" -> 4 [] c = "5" -> 5 [] c = "6" -> 6 [] c = "7" -> 7
    [] c = "8" -> 8 [] c = "9" -> 9
    [] c = "a" -> 10 [] c = "b" -> 11 [] c = "c" -> 12

HexDigits == Digits \cup {"a", "b", "c"}
BinDigits == {"0", "1"}

\* String.prototype.trim: whitespace removed at both ends.
RECURSIVE TrimLeft(_)
TrimLeft(s) ==
  IF s # <<>> /\ Head(s) \in Whitespace THEN TrimLeft(Tail(s)) ELSE s

RECURSIVE TrimRight(_)
TrimRight(s) ==
  IF s # <<>> /\ s[Len(s)] \in Whitespace
  THEN TrimRight(SubSeq(s, 1, Len(s) - 1))
  ELSE s

Trim(s) == TrimRight(TrimLeft(s))

\* ------------------------------------------------------------ numbers
NaN == [nan |-> TRUE, neg |-> FALSE, mag |-> 0]
Num(neg, mag) == [nan |-> FALSE, neg |-> neg, mag |-> mag]
Zero == Num(FALSE, 0)

\* x < 0 of ECMAScript: false for NaN and for -0.
LessThanZero(x) == ~x.nan /\ x.neg /\ x.mag > 0

RECURSIVE LeadingDigits(_)
LeadingDigits(s) ==
  IF s # <<>> /\ Head(s) \in Digits THEN 1 + LeadingDigits(Tail(s)) ELSE 0

\* The value of a digit string in the given radix.
RECURSIVE RadixValue(_, _)
RadixValue(s, radix) ==
  IF s = <<>> THEN 0
  ELSE RadixValue(SubSeq(s, 1, Len(s) - 1), radix) * radix + DigitVal(s[Len(s)])

\* The longest prefix of t that is a StrDecimalLiteral: an optional sign, then
\* digits with an optional dot and digits, or a dot and digits.  len = 0 when
\* no prefix is one.
StrDecimalPrefix(t) ==
  LET signLen == IF t # <<>> /\ t[1] \in Signs THEN 1 ELSE 0
      u == Drop(t, signLen)
      intLen == LeadingDigits(u)
      v == Drop(u, intLen)
      hasDot == v # <<>> /\ v[1] = "."
      fracLen == IF hasDot THEN LeadingDigits(Tail(v)) ELSE 0
      ok == intLen + fracLen > 0
      dotLen == IF hasDot /\ ok THEN 1 ELSE 0
      intPart == RadixValue(SubSeq(u, 1, intLen), 10)
      fracPart == RadixValue(SubSeq(v, 2, 1 + fracLen), 10)
  IN [len |-> IF ok THEN signLen + intLen + dotLen + fracLen ELSE 0,
      neg |-> signLen = 1 /\ t[1] = "-",
      mag |-> intPart * Scale + fracPart * (Scale \div Pow10(fracLen))]

\* NonDecimalIntegerLiteral of Number(): 0x and 0b literals, unsigned.
IsRadixLiteral(t, mark, digits) ==
  /\ Len(t) >= 3
  /\ t[1] = "0"
  /\ t[2] = mark
  /\ \A i \in 3..Len(t) : t[i] \in digits

\* Number(text): the whole trimmed text must be a numeric literal; the empty
\* text is 0.
ToNumber(text) ==
  LET t == Trim(text)
      p == StrDecimalPrefix(t)
  IN IF t = <<>> THEN Zero
     ELSE IF IsRadixLiteral(t, "x", HexDigits)
       THEN Num(FALSE, RadixValue(Drop(t, 2), 16) * Scale)
     ELSE IF IsRadixLiteral(t, "b", BinDigits)
       THEN Num(FALSE, RadixValue(Drop(t, 2), 2) * Scale)
     ELSE IF p.len > 0 /\ p.len = Len(t) THEN Num(p.neg, p.mag)
     ELSE NaN

\* isNaN(text): the argument is converted with Number().
isNaN(text) == ToNumber(text).nan

\* parseFloat(text): the longest decimal prefix after leading whitespace;
\* what follows the prefix is ignored.
parseFloat(text) ==
  LET p == StrDecimalPrefix(TrimLeft(text))
  IN IF p.len = 0 THEN NaN ELSE Num(p.neg, p.mag)

\* ------------------------------------------------------------ the form
NumMonths == 12
Months == 1..NumMonths
Kinds == {"income", "expense"}

monthLabels ==
  <<"Jan", "Feb", "Mar", "Apr", "May", "Jun",
    "Jul", "Aug", "Sep", "Oct", "Nov", "Dec">>

ValidationAlert == "Please fix the validation errors before updating the chart."
ExportAlert == "Please update the chart first before downloading."
DownloadName == "budget-chart.png"

\* The text every field holds when the page is loaded: empty, or a default.
InitTexts == {<<>>, <<"7">>}

\* The months whose two fields the user edits, and the texts typed there.
EditableMonths == {1, NumMonths}
FieldTexts ==
  { <<>>,
    <<" ">>,
    <<" ", "5", " ">>,
    <<"-", "3">>,
    <<"a", "b", "c">>,
    <<"0", "x", "1", "0">> }

\* Every text of at most MaxTextLen characters over TextAlphabet.
TextAlphabet == {" ", "-", "+", ".", "0", "5", "a", "x"}
AllTexts == UNION {[1..n -> TextAlphabet] : n \in 0..MaxTextLen}

VARIABLES
  value,          \* value[k][i]: input.value of field i of series k
  isInvalid,      \* isInvalid[k][i]: the field carries class "is-invalid"
  chartInstance,  \* 0 for null, else the index in instances of the chart held
  instances,      \* every Chart constructed so far, in construction order
  pc,             \* position inside renderChart: "idle", "destroy", "create"
  collected,      \* what the latest validateAndCollectData() returned
  callsSinceEdit, \* calls of validateAndCollectData since the last edit (0, 1, 2 = more)
  edits,          \* edits of fields made so far
  alertCalls,     \* alert() messages of the current event turn
  createdLinks    \* <a> elements the current event turn created

vars ==
  <<value, isInvalid, chartInstance, instances, pc, collected,
    callsSinceEdit, edits, alertCalls, createdLinks>>

NoResult == [isValid |-> TRUE, incomeData |-> <<>>, expenseData |-> <<>>]

\* validateInput with the check made on parseFloat alone: a text with a numeric
\* prefix passes.
validateInput_ParseFloatCheck(text, marked) ==
  LET v == Trim(text)
  IN IF v = <<>>
     THEN [data |-> Zero, marked |-> FALSE, ok |-> TRUE]
     ELSE IF parseFloat(v).nan \/ LessThanZero(parseFloat(v))
       THEN [data |-> Zero, marked |-> TRUE, ok |-> FALSE]
       ELSE [data |-> parseFloat(v), marked |-> FALSE, ok |-> TRUE]

\* validateInput whose valid branch forgets classList.remove.
validateInput_MarkerKept(text, marked) ==
  LET v == Trim(text)
  IN IF v = <<>>
     THEN [data |-> Zero, marked |-> FALSE, ok |-> TRUE]
     ELSE IF isNaN(v) \/ LessThanZero(parseFloat(v))
       THEN [data |-> Zero, marked |-> TRUE, ok |-> FALSE]
       ELSE [data |-> parseFloat(v), marked |-> marked, ok |-> TRUE]

\* validateInput without the trim.
validateInput_NoTrim(text, marked) ==
  LET v == text
  IN IF v = <<>>
     THEN [data |-> Zero, marked |-> FALSE, ok |-> TRUE]
     ELSE IF isNaN(v) \/ LessThanZero(parseFloat(v))
       THEN [data |-> Zero, marked |-> TRUE, ok |-> FALSE]
       ELSE [data |-> parseFloat(v), marked |-> FALSE, ok |-> TRUE]

\* validateInput with classList.toggle in place of classList.add.
validateInput_Toggle(text, marked) ==
  LET v == Trim(text)
  IN IF v = <<>>
     THEN [data |-> Zero, marked |-> FALSE, ok |-> TRUE]
     ELSE IF isNaN(v) \/ LessThanZero(parseFloat(v))
       THEN [data |-> Zero, marked |-> ~marked, ok |-> FALSE]
       ELSE [data |-> parseFloat(v), marked |-> FALSE, ok |-> TRUE]

\* validateInput whose invalid branch pushes what parseFloat gave.
validateInput_InputPushed(text, marked) ==
  LET v == Trim(text)
  IN IF v = <<>>
     THEN [data |-> Zero, marked |-> FALSE, ok |-> TRUE]
     ELSE IF isNaN(v) \/ LessThanZero(parseFloat(v))
       THEN [data |-> parseFloat(v), marked |-> TRUE, ok |-> FALSE]
       ELSE [data |-> parseFloat(v), marked |-> FALSE, ok |-> TRUE]

\* One iteration of the forEach callbacks: the field's text and whether it
\* carries the marker give its series entry, its marker and whether it passed.
validateInput(text, marked) ==
  LET v == Trim(text)
  IN IF v = <<>>
     THEN [data |-> Zero, marked |-> FALSE, ok |-> TRUE]
     ELSE IF isNaN(v) \/ LessThanZero(parseFloat(v))
       THEN [data |-> Zero, marked |-> TRUE, ok |-> FALSE]
       ELSE [data |-> parseFloat(v), marked |-> FALSE, ok |-> TRUE]

\* validateInput, tabulated for the texts typed in the form.
KnownTexts == InitTexts \cup FieldTexts
OutcomeMarked == [t \in KnownTexts |-> validateInput(t, TRUE)]
OutcomeUnmarked == [t \in KnownTexts |-> validateInput(t, FALSE)]
fieldOutcome(text, marked) ==
  IF text \in KnownTexts
  THEN IF marked THEN OutcomeMarked[text] ELSE OutcomeUnmarked[text]
  ELSE validateInput(text, marked)

\* One forEach step: the outcome f of a field is pushed on the series so far.
Push(acc, f) ==
  [isValid |-> acc.isValid /\ f.ok,
   data |-> Append(acc.data, f.data),
   marks |-> Append(acc.marks, f.marked)]

\* A forEach step that gives up once a field has failed: the later fields
\* keep their markers and contribute 0.
PushUnlessFailed(acc, f, old) ==
  IF acc.isValid
  THEN Push(acc, f)
  ELSE [isValid |-> FALSE,
        data |-> Append(acc.data, Zero),
        marks |-> Append(acc.marks, old)]

\* inputs.forEach that stops evaluating at the first invalid field.
RECURSIVE forEachInput_StopAtFailure(_, _, _)
forEachInput_StopAtFailure(texts, marks, n) ==
  IF n = 0
  THEN [isValid |-> TRUE, data |-> <<>>, marks |-> <<>>]
  ELSE PushUnlessFailed(forEachInput_StopAtFailure(texts, marks, n - 1),
                        fieldOutcome(texts[n], marks[n]),
                        marks[n])

\* inputs.forEach over the first n fields of one series, in document order.
RECURSIVE forEachInput(_, _, _)
forEachInput(texts, marks, n) ==
  IF n = 0
  THEN [isValid |-> TRUE, data |-> <<>>, marks |-> <<>>]
  ELSE Push(forEachInput(texts, marks, n - 1),
            fieldOutcome(texts[n], marks[n]))

Combine(inc, exp) ==
  [isValid |-> inc.isValid /\ exp.isValid,
   incomeData |-> inc.data,
   expenseData |-> exp.data,
   marks |-> [k \in Kinds |-> IF k = "income" THEN inc.marks ELSE exp.marks]]

\* validateAndCollectData(): every income field, then every expense field.
validateAndCollectData(vals, marks) ==
  Combine(forEachInput(vals["income"], marks["income"], NumMonths),
          forEachInput(vals["expense"], marks["expense"], NumMonths))

Returned(r) ==
  [isValid |-> r.isValid, incomeData |-> r.incomeData,
   expenseData |-> r.expenseData]

\* new Chart with the two series in each other's place.
NewChart_Swapped(incomeData, expenseData) ==
  [destroyed |-> FALSE,
   type |-> "bar",
   labels |-> monthLabels,
   datasets |-> << [label |-> "Income", data |-> expenseData],
                   [label |-> "Expenses", data |-> incomeData] >>]

\* new Chart(ctx, config): the parts of the configuration the data decide.
NewChart(incomeData, expenseData) ==
  [destroyed |-> FALSE,
   type |-> "bar",
   labels |-> monthLabels,
   datasets |-> << [label |-> "Income", data |-> incomeData],
                   [label |-> "Expenses", data |-> expenseData] >>]

\* chart.toBase64Image(): the PNG data URL of the chart with that index.
toBase64Image(c) == [scheme |-> "data:image/png;base64", chart |-> c]

Live == {c \in 1..Len(instances) : ~instances[c].destroyed}

EmptyForm(t) == [k \in Kinds |-> [i \in Months |-> t]]

\* The page after window.onload: no marker, no chart, nothing shown.
Loaded ==
  /\ isInvalid = [k \in Kinds |-> [i \in Months |-> FALSE]]
  /\ chartInstance = 0
  /\ instances = <<>>
  /\ pc = "idle"
  /\ collected = NoResult
  /\ callsSinceEdit = 0
  /\ edits = 0
  /\ alertCalls = <<>>
  /\ createdLinks = <<>>

Init ==
  /\ \E t \in InitTexts : value = EmptyForm(t)
  /\ Loaded

\* The user types text t into field i of series k.
SetField(k, i, t) ==
  /\ pc = "idle"
  /\ edits < MaxEdits
  /\ t # value[k][i]
  /\ value' = [value EXCEPT ![k][i] = t]
  /\ edits' = edits + 1
  /\ callsSinceEdit' = 0
  /\ alertCalls' = <<>>
  /\ createdLinks' = <<>>
  /\ UNCHANGED <<isInvalid, chartInstance, instances, pc, collected>>

Bump(n) == IF n < 2 THEN n + 1 ELSE 2

\* A direct call of validateAndCollectData().
ValidateCall ==
  /\ pc = "idle"
  /\ \E r \in {validateAndCollectData(value, isInvalid)} :
       /\ isInvalid' = r.marks
       /\ collected' = Returned(r)
  /\ callsSinceEdit' = Bump(callsSinceEdit)
  /\ alertCalls' = <<>>
  /\ createdLinks' = <<>>
  /\ UNCHANGED <<value, chartInstance, instances, pc, edits>>

\* renderChart() without the return after the alert.
RenderValidate_NoReturn ==
  /\ pc = "idle"
  /\ Len(instances) < MaxCharts
  /\ \E r \in {validateAndCollectData(value, isInvalid)} :
       /\ isInvalid' = r.marks
       /\ collected' = Returned(r)
       /\ alertCalls' = IF ~r.isValid THEN <<ValidationAlert>> ELSE <<>>
       /\ pc' = "destroy"
  /\ callsSinceEdit' = Bump(callsSinceEdit)
  /\ createdLinks' = <<>>
  /\ UNCHANGED <<value, chartInstance, instances, edits>>

\* renderChart() that drops the chart it holds when validation fails.
RenderValidate_DropsOnFailure ==
  /\ pc = "idle"
  /\ \E r \in {validateAndCollectData(value, isInvalid)} :
       /\ r.isValid => Len(instances) < MaxCharts
       /\ isInvalid' = r.marks
       /\ collected' = Returned(r)
       /\ IF ~r.isValid
          THEN /\ alertCalls' = <<ValidationAlert>>
               /\ pc' = "idle"
               /\ chartInstance' = 0
          ELSE /\ alertCalls' = <<>>
               /\ pc' = "destroy"
               /\ chartInstance' = chartInstance
  /\ callsSinceEdit' = Bump(callsSinceEdit)
  /\ createdLinks' = <<>>
  /\ UNCHANGED <<value, instances, edits>>

\* renderChart(), entered by the click on updateChartBtn or by shown.bs.tab on
\* chart-tab: validation, then the alert and the return when it failed.
RenderValidate ==
  /\ pc = "idle"
  /\ \E r \in {validateAndCollectData(value, isInvalid)} :
       /\ r.isValid => Len(instances) < MaxCharts
       /\ isInvalid' = r.marks
       /\ collected' = Returned(r)
       /\ IF ~r.isValid
          THEN alertCalls' = <<ValidationAlert>> /\ pc' = "idle"
          ELSE alertCalls' = <<>> /\ pc' = "destroy"
  /\ callsSinceEdit' = Bump(callsSinceEdit)
  /\ createdLinks' = <<>>
  /\ UNCHANGED <<value, chartInstance, instances, edits>>

\* renderChart() without the destroy of the existing chart.
RenderDestroy_Skipped ==
  /\ pc = "destroy"
  /\ pc' = "create"
  /\ UNCHANGED <<value, isInvalid, chartInstance, instances, collected,
                 callsSinceEdit, edits, alertCalls, createdLinks>>

\* renderChart(), continued: the existing chart, if any, is destroyed.
RenderDestroy ==
  /\ pc = "destroy"
  /\ instances' =
       IF chartInstance # 0
       THEN [instances EXCEPT ![chartInstance].destroyed = TRUE]
       ELSE instances
  /\ pc' = "create"
  /\ UNCHANGED <<value, isInvalid, chartInstance, collected, callsSinceEdit,
                 edits, alertCalls, createdLinks>>

\* renderChart() that constructs the chart and does not keep it.
RenderCreate_NotKept ==
  /\ pc = "create"
  /\ instances' =
       Append(instances, NewChart(collected.incomeData, collected.expenseData))
  /\ pc' = "idle"
  /\ UNCHANGED <<value, isInvalid, chartInstance, collected, callsSinceEdit,
                 edits, alertCalls, createdLinks>>

\* renderChart(), concluded: the new chart is constructed and kept.
RenderCreate ==
  /\ pc = "create"
  /\ instances' =
       Append(instances, NewChart(collected.incomeData, collected.expenseData))
  /\ chartInstance' = Len(instances) + 1
  /\ pc' = "idle"
  /\ UNCHANGED <<value, isInvalid, collected, callsSinceEdit, edits,
                 alertCalls, createdLinks>>

\* The click handler without the return after the alert: the link is made
\* whether or not a chart exists.
ExportChart_NoReturn ==
  /\ pc = "idle"
  /\ alertCalls' = IF chartInstance = 0 THEN <<ExportAlert>> ELSE <<>>
  /\ createdLinks' =
       << [href |-> toBase64Image(chartInstance),
           download |-> DownloadName,
           clicks |-> 1] >>
  /\ UNCHANGED <<value, isInvalid, chartInstance, instances, pc, collected,
                 callsSinceEdit, edits>>

\* The click handler that builds the link and never clicks it.
ExportChart_NotClicked ==
  /\ pc = "idle"
  /\ IF chartInstance = 0
     THEN /\ alertCalls' = <<ExportAlert>>
          /\ createdLinks' = <<>>
     ELSE /\ alertCalls' = <<>>
          /\ createdLinks' =
               << [href |-> toBase64Image(chartInstance),
                   download |-> DownloadName,
                   clicks |-> 0] >>
  /\ UNCHANGED <<value, isInvalid, chartInstance, instances, pc, collected,
                 callsSinceEdit, edits>>

\* The click handler that validates the form again before it exports.
ExportChart_Revalidates ==
  /\ pc = "idle"
  /\ \E r \in {validateAndCollectData(value, isInvalid)} :
       /\ isInvalid' = r.marks
       /\ collected' = Returned(r)
  /\ callsSinceEdit' = Bump(callsSinceEdit)
  /\ IF chartInstance = 0
     THEN /\ alertCalls' = <<ExportAlert>>
          /\ createdLinks' = <<>>
     ELSE /\ alertCalls' = <<>>
          /\ createdLinks' =
               << [href |-> toBase64Image(chartInstance),
                   download |-> DownloadName,
                   clicks |-> 1] >>
  /\ UNCHANGED <<value, chartInstance, instances, pc, edits>>

\* The click handler of downloadChartBtn.
ExportChart ==
  /\ pc = "idle"
  /\ IF chartInstance = 0
     THEN /\ alertCalls' = <<ExportAlert>>
          /\ createdLinks' = <<>>
     ELSE /\ alertCalls' = <<>>
          /\ createdLinks' =
               << [href |-> toBase64Image(chartInstance),
                   download |-> DownloadName,
                   clicks |-> 1] >>
  /\ UNCHANGED <<value, isInvalid, chartInstance, instances, pc, collected,
                 callsSinceEdit, edits>>

Next ==
  \/ \E k \in Kinds : \E i \in EditableMonths : \E t \in FieldTexts :
       SetField(k, i, t)
  \/ ValidateCall
  \/ RenderValidate
  \/ RenderDestroy
  \/ RenderCreate
  \/ ExportChart

Spec == Init /\ [][Next]_vars

\* validateAndCollectData() called on a loaded form where the first or the
\* last field of one series holds any text of AllTexts.
InitValidate ==
  /\ \E base \in InitTexts : \E k \in Kinds : \E i \in EditableMonths :
       \E t \in AllTexts :
         value = [EmptyForm(base) EXCEPT ![k][i] = t]
  /\ Loaded

NextValidate == ValidateCall

SpecValidate == InitValidate /\ [][NextValidate]_vars

\* ------------------------------------------------------------ claims
Fields == Kinds \X Months
TextOf(f) == value[f[1]][f[2]]
MarkOf(f) == isInvalid[f[1]][f[2]]
SeriesOf(r, k) == IF k = "income" THEN r.incomeData ELSE r.expenseData
EntryOf(f) == SeriesOf(collected, f[1])[f[2]]

\* The markers and collected are those of a call made on the present texts.
Validated == pc = "idle" /\ callsSinceEdit >= 1

\* The trimmed text, Number() of the text and parseFloat of the trimmed text,
\* tabulated for the texts the form can hold.
TrimOf == [t \in KnownTexts |-> Trim(t)]
ToNumberOf == [t \in KnownTexts |-> ToNumber(t)]
ParsedOf == [t \in KnownTexts |-> parseFloat(Trim(t))]
Trimmed(t) == IF t \in KnownTexts THEN TrimOf[t] ELSE Trim(t)
NumberOf(t) == IF t \in KnownTexts THEN ToNumberOf[t] ELSE ToNumber(t)
Parsed(t) == IF t \in KnownTexts THEN ParsedOf[t] ELSE parseFloat(Trim(t))

IsEmptyText(t) == Trimmed(t) = <<>>
\* Number() of the text: not a number, a number below zero, a number not below.
NotANumber(t) == NumberOf(t).nan
IsNegative(t) == ~NumberOf(t).nan /\ NumberOf(t).neg /\ NumberOf(t).mag > 0
NumericNonNegative(t) == ~IsEmptyText(t) /\ ~NotANumber(t) /\ ~IsNegative(t)

\* C1: in every state, the states between the steps of renderChart included,
\* at most one chart is constructed and not destroyed; when renderChart is
\* about to construct, the chart it held is destroyed already.
C1_AtMostOneLive ==
  /\ Cardinality(Live) <= 1
  /\ pc = "create" => Live = {}

C1_Witness ==
  /\ pc = "create"
  /\ chartInstance # 0
  /\ instances[chartInstance].destroyed

\* C2: renderChart() with an invalid field constructs no chart, leaves the
\* charts and chartInstance as they were, returns, and shows the validation
\* message exactly once.
C2_InvalidRenderKeepsChart ==
  [][(~collected'.isValid /\ RenderValidate)
       => /\ instances' = instances
          /\ chartInstance' = chartInstance
          /\ pc' = "idle"
          /\ alertCalls' = <<ValidationAlert>>]_vars

C2_Witness ==
  /\ alertCalls = <<ValidationAlert>>
  /\ pc = "idle"
  /\ chartInstance # 0
  /\ ~instances[chartInstance].destroyed

\* C3: once renderChart() has succeeded twice (or more), every chart but the
\* last constructed is destroyed and the last one is live and is the one held.
C3_SecondRenderReplaces ==
  (pc = "idle" /\ Len(instances) >= 2)
    => /\ instances[Len(instances) - 1].destroyed
       /\ ~instances[Len(instances)].destroyed
       /\ Live = {Len(instances)}
       /\ chartInstance = Len(instances)

C3_Witness ==
  /\ pc = "idle"
  /\ Len(instances) = 2
  /\ instances[1].destroyed
  /\ ~instances[2].destroyed

\* C4: after validateAndCollectData(), a field whose trimmed text is not empty
\* and is not a number, or is a number below zero, has series entry 0 and the
\* invalid marker, and isValid is false.
C4_InvalidFieldRejected ==
  Validated =>
    \A f \in Fields :
      (~IsEmptyText(TextOf(f)) /\ (NotANumber(TextOf(f)) \/ IsNegative(TextOf(f))))
        => /\ EntryOf(f) = Zero
           /\ MarkOf(f)
           /\ ~collected.isValid

C4_Witness ==
  /\ Validated
  /\ ~collected.isValid
  /\ \E f \in Fields :
       /\ IsNegative(TextOf(f))
       /\ TextOf(f) # Trim(TextOf(f))
       /\ MarkOf(f)
       /\ EntryOf(f) = Zero

\* C5: after validateAndCollectData() on a form all of whose 24 fields hold
\* numeric text not below zero (text that Number() takes for a number), isValid
\* is true, every series entry is parseFloat of its field's trimmed text, in
\* field order, and no field carries the invalid marker.
C5_NumericFormCollected ==
  (Validated /\ \A f \in Fields : NumericNonNegative(TextOf(f)))
    => /\ collected.isValid
       /\ Len(collected.incomeData) = NumMonths
       /\ Len(collected.expenseData) = NumMonths
       /\ \A f \in Fields : EntryOf(f) = Parsed(TextOf(f))
       /\ \A f \in Fields : ~MarkOf(f)

C5_Witness ==
  /\ Validated
  /\ \A f \in Fields : NumericNonNegative(TextOf(f))
  /\ edits = 2
  /\ collected.isValid
  /\ collected.incomeData[1] # collected.incomeData[NumMonths]

\* C6: after validateAndCollectData(), a field whose trimmed text is empty has
\* series entry 0 and no invalid marker, and isValid is false only if some
\* field that is not empty carries the marker; a form of 24 empty fields gives
\* isValid true, twelve zeros twice and no marker.
C6_EmptyFieldIsZero ==
  Validated =>
    /\ \A f \in Fields :
         IsEmptyText(TextOf(f)) => (EntryOf(f) = Zero /\ ~MarkOf(f))
    /\ ~collected.isValid =>
         \E f \in Fields : ~IsEmptyText(TextOf(f)) /\ MarkOf(f)
    /\ (\A f \in Fields : IsEmptyText(TextOf(f)))
         => /\ collected.isValid
            /\ collected.incomeData = [i \in Months |-> Zero]
            /\ collected.expenseData = [i \in Months |-> Zero]
            /\ \A f \in Fields : ~MarkOf(f)

C6_Witness ==
  /\ Validated
  /\ \A f \in Fields : IsEmptyText(TextOf(f))
  /\ \E f \in Fields : TextOf(f) # <<>>
  /\ collected.isValid
  /\ collected.incomeData = [i \in Months |-> Zero]

\* C7: the export click while chartInstance is null shows the export message
\* once, creates and clicks no link, and leaves the chart state as it was: no
\* chart held, none ever constructed.
C7_ExportWithoutChart ==
  [][(ExportChart /\ chartInstance = 0)
       => /\ alertCalls' = <<ExportAlert>>
          /\ createdLinks' = <<>>
          /\ chartInstance' = 0
          /\ instances = <<>>
          /\ instances' = <<>>]_vars

C7_Witness ==
  /\ alertCalls = <<ExportAlert>>
  /\ createdLinks = <<>>
  /\ chartInstance = 0
  /\ instances = <<>>

\* C8: the export click after a successful render creates one link, clicked
\* once, named "budget-chart.png", whose href is the image of the chart
\* constructed last, which is not destroyed; no message is shown.
C8_ExportDownloadsCurrentChart ==
  [][(ExportChart /\ Len(instances) >= 1)
       => /\ Len(createdLinks') = 1
          /\ createdLinks'[1].download = "budget-chart.png"
          /\ createdLinks'[1].clicks = 1
          /\ createdLinks'[1].href = toBase64Image(Len(instances))
          /\ ~instances[Len(instances)].destroyed
          /\ alertCalls' = <<>>]_vars

C8_Witness ==
  /\ Len(createdLinks) = 1
  /\ createdLinks[1].clicks = 1
  /\ Len(instances) = 2
  /\ createdLinks[1].href = toBase64Image(2)

\* C9: the chart a successful renderChart() constructs has the labels Jan..Dec
\* in order and two series, "Income" then "Expenses", whose entry i is what
\* validation gives for the income and the expense field of month i.
C9_ChartHoldsCollectedSeries ==
  [][RenderCreate
       => LET c == instances'[Len(instances')]
          IN /\ Len(instances') = Len(instances) + 1
             /\ ~c.destroyed
             /\ c.labels = <<"Jan", "Feb", "Mar", "Apr", "May", "Jun",
                             "Jul", "Aug", "Sep", "Oct", "Nov", "Dec">>
             /\ Len(c.datasets) = 2
             /\ c.datasets[1].label = "Income"
             /\ c.datasets[2].label = "Expenses"
             /\ Len(c.datasets[1].data) = NumMonths
             /\ Len(c.datasets[2].data) = NumMonths
             /\ \A i \in Months :
                  /\ c.datasets[1].data[i]
                       = validateInput(value["income"][i], FALSE).data
                  /\ c.datasets[2].data[i]
                       = validateInput(value["expense"][i], FALSE).data]_vars

C9_Witness ==
  /\ pc = "idle"
  /\ chartInstance # 0
  /\ instances[chartInstance].datasets[1].data
       # instances[chartInstance].datasets[2].data
  /\ instances[chartInstance].datasets[1].data[1]
       # instances[chartInstance].datasets[1].data[NumMonths]

\* C10: a call of validateAndCollectData() that follows another with no edit
\* in between returns what the first returned and leaves every marker as the
\* first left it.
C10_ValidateIdempotent ==
  [][(callsSinceEdit >= 1 /\ callsSinceEdit' >= 1
        /\ (ValidateCall \/ RenderValidate))
       => /\ collected' = collected
          /\ isInvalid' = isInvalid]_vars

C10_Witness ==
  /\ callsSinceEdit = 2
  /\ pc = "idle"
  /\ ~collected.isValid
  /\ \E f \in Fields : MarkOf(f)
  /\ \E f \in Fields : ~MarkOf(f)

\* C11: after validateAndCollectData(), whatever markers the fields carried
\* before and whatever the other fields hold, a field carries the invalid
\* marker exactly when its own trimmed text is not empty and is not a number
\* or is below zero, and isValid is true exactly when no field carries it.
ShouldBeMarked(t) == ~IsEmptyText(t) /\ (NotANumber(t) \/ IsNegative(t))

C11_MarkersReevaluated ==
  Validated =>
    /\ \A f \in Fields : MarkOf(f) <=> ShouldBeMarked(TextOf(f))
    /\ collected.isValid <=> (\A f \in Fields : ~MarkOf(f))

\* Two fields of one series fail, the earlier and the later both marked, and
\* a field of the other series passes.
C11_Witness ==
  /\ Validated
  /\ ~collected.isValid
  /\ \E k \in Kinds :
       /\ isInvalid[k][1] /\ isInvalid[k][NumMonths]
       /\ ShouldBeMarked(value[k][1]) /\ ShouldBeMarked(value[k][NumMonths])
       /\ value[k][1] # value[k][NumMonths]
  /\ \E f \in Fields : ~MarkOf(f)

\* C12: whatever validateAndCollectData() returns, valid or not, holds two
\* series of exactly 12 entries; every entry is a number not below zero; the
\* entry of a field is 0 when the field is empty or invalid and the parsed
\* number of that field otherwise.
\* x >= 0 of ECMAScript: false for NaN.
NotBelowZero(x) == ~x.nan /\ ~(x.neg /\ x.mag > 0)

C12_SeriesShape ==
  Validated =>
    /\ Len(collected.incomeData) = NumMonths
    /\ Len(collected.expenseData) = NumMonths
    /\ \A f \in Fields :
         /\ NotBelowZero(EntryOf(f))
         /\ EntryOf(f) =
              IF IsEmptyText(TextOf(f)) \/ ShouldBeMarked(TextOf(f))
              THEN Zero
              ELSE Parsed(TextOf(f))

\* An invalid result whose failing field has a negative numeric prefix and
\* text after it, collected as 0.
C12_Witness ==
  /\ Validated
  /\ ~collected.isValid
  /\ Len(collected.incomeData) = NumMonths
  /\ Len(collected.expenseData) = NumMonths
  /\ \E f \in Fields :
       /\ NotANumber(TextOf(f))
       /\ LessThanZero(parseFloat(TextOf(f)))
       /\ EntryOf(f) = Zero

\* C13: once a renderChart() has succeeded, chartInstance is never null
\* again; whenever a trigger can fire it is the chart constructed last, which
\* is not destroyed; and every export click then creates the download link
\* and shows no message, also after renders that failed validation.
C13_HandleStaysAfterSuccess ==
  /\ []((pc = "idle" /\ instances # <<>>)
          => /\ chartInstance = Len(instances)
             /\ ~instances[chartInstance].destroyed)
  /\ [][/\ chartInstance # 0 => chartInstance' # 0
        /\ (ExportChart /\ instances # <<>>)
             => (Len(createdLinks') = 1 /\ alertCalls' = <<>>)]_vars

\* A download made after validation of the present texts failed: the chart
\* exported holds a series the present fields would not give.
C13_Witness ==
  /\ pc = "idle"
  /\ callsSinceEdit >= 1
  /\ ~collected.isValid
  /\ chartInstance # 0
  /\ Len(createdLinks) = 1
  /\ createdLinks[1].href = toBase64Image(chartInstance)
  /\ instances[chartInstance].datasets[1].data # collected.incomeData

\* C14: a step of the export click, on the path that shows the export
\* message as on the path that creates the link, changes neither
\* chartInstance, nor any chart or its destroyed flag, nor a field's text, nor
\* a marker; no validation runs, no chart is constructed or destroyed.
IsExportStep ==
  \/ ExportChart
  \/ createdLinks' # <<>>
  \/ alertCalls' = <<ExportAlert>>

C14_ExportChangesNothing ==
  [][IsExportStep
       => /\ chartInstance' = chartInstance
          /\ instances' = instances
          /\ value' = value
          /\ isInvalid' = isInvalid
          /\ collected' = collected
          /\ callsSinceEdit' = callsSinceEdit
          /\ pc' = pc]_vars

\* A download made while a field edited since the last validation would fail
\* it: the markers and the two charts, one destroyed, are as they were.
C14_Witness ==
  /\ Len(createdLinks) = 1
  /\ callsSinceEdit = 0
  /\ edits >= 1
  /\ \E f \in Fields : ShouldBeMarked(TextOf(f)) /\ ~MarkOf(f)
  /\ Len(instances) = 2
  /\ instances[1].destroyed
  /\ chartInstance = 2

====
